---- MODULE Spec2Model ----
(***************************************************************************)
(* ImmersiveLayout (src/ImmersiveLayout.py): a container whose dock        *)
(* animates out of view (immersive mode) and back, with an auto-hide       *)
(* timer re-armed by input events.                                         *)
(*                                                                         *)
(* Conventions of the model                                                *)
(*  - Python None / True / False of the tri-state `immersed` property are  *)
(*    the strings "None" / "True" / "False"; Truthy is Python truthiness.  *)
(*  - _anim_progress is an integer in 0..PScale, PScale standing for 1.0.  *)
(*  - An Animation runs for AnimSteps clock frames.  Cancel removes it     *)
(*    without completion; completion fires its on_complete binding.        *)
(*  - The kivy Clock is a set of pending events, each with the number of   *)
(*    time units left.  Time passes by Tick; an event whose time is up     *)
(*    fires before time passes again.                                      *)
(*  - Handlers are operators from a state record to a state record, so     *)
(*    that a handler calling another one is operator application.          *)
(***************************************************************************)
EXTENDS Integers, Sequences, FiniteSets, TLC

VARIABLES
    immersed,          \* BooleanProperty(None)
    auto_show,         \* BooleanProperty(True)
    auto_hide,         \* BooleanProperty(True)
    timeout,           \* NumericProperty(5)
    _timeout,          \* attribute created by on_auto_hide; Unset before
    _anim_progress,    \* NumericProperty, 0..PScale
    _anim,             \* id of the Animation object held by self._anim
    anims,             \* Animations running on the widget
    _scheduled_close,  \* id of the ClockEvent held, 0 for None
    clock,             \* pending ClockEvents
    events,            \* events dispatched by the last step, in order
    err,               \* an exception escaped a handler
    children,          \* self.children, newest first
    kids,              \* children of every other widget, newest first
    _main_panel,       \* structural slot of the main panel, 0 for None
    _dock,             \* structural slot of the dock, 0 for None
    main_panel,        \* ObjectProperty(None)
    dock,              \* ObjectProperty(None)
    added,             \* history: widgets passed to add_widget, in order
    lastOp,            \* history: the operation of the last step
    ret,               \* history: what the last input handler returned
    run,               \* history: see EnterRun
    fins,              \* history: see EnterRun
    revealT,           \* history: see Reveal
    elapsed,           \* history: see Reveal
    autoEnters,        \* history: see Reveal
    offFrom,           \* history: see SetAutoHide
    toggled,           \* history: see ToggleState
    root,              \* x, y, width, height of the ImmersiveLayout, in pixels
    max_dock_size,     \* NumericProperty(0.2), in 1/FScale
    fade,              \* BooleanProperty(True)
    kv                 \* what the kv rule has assigned: _max_dock_size and
                       \* the geometry of the _main_panel and _dock boxes

ctl == <<immersed, auto_show, auto_hide, timeout, _timeout, _anim_progress,
         _anim, anims, _scheduled_close, clock, events, err>>
tree == <<children, kids, _main_panel, _dock, main_panel, dock, added>>
hist == <<run, fins, revealT, elapsed, autoEnters, offFrom, toggled>>
box == <<root, max_dock_size, fade>>
vars == <<ctl, tree, lastOp, ret, hist, box, kv>>

----------------------------------------------------------------------------
\* Bounds and program constants

PScale == 4
AnimSteps == 2
MaxTimeout == 2
DefaultTimeout == 5
NWidgets == 5
MaxAdds == 6
MaxCoord == 1
MaxSize == 2
FScale == 5
DefaultMaxDockSize == 1

Unset == 0 - 1
TimeoutValues == (0..MaxTimeout) \cup {DefaultTimeout}
Widgets == 1..NWidgets
PyBool == {"None", "True", "False"}
Coords == 0..MaxCoord
Sizes == 1..MaxSize
DockFractions == 1..FScale

Truthy(v) == v = "True"
BoolInt(b) == IF b THEN 1 ELSE 0
Min(a, b) == IF a < b THEN a ELSE b

----------------------------------------------------------------------------
\* The controller as a record

self ==
    [immersed |-> immersed, auto_show |-> auto_show, auto_hide |-> auto_hide,
     timeout |-> timeout, _timeout |-> _timeout,
     _anim_progress |-> _anim_progress, _anim |-> _anim, anims |-> anims,
     _scheduled_close |-> _scheduled_close, clock |-> clock,
     events |-> <<>>, err |-> FALSE]

Apply(s) ==
    /\ immersed' = s.immersed
    /\ auto_show' = s.auto_show
    /\ auto_hide' = s.auto_hide
    /\ timeout' = s.timeout
    /\ _timeout' = s._timeout
    /\ _anim_progress' = s._anim_progress
    /\ _anim' = s._anim
    /\ anims' = s.anims
    /\ _scheduled_close' = s._scheduled_close
    /\ clock' = s.clock
    /\ events' = s.events
    /\ err' = s.err

\* self.dispatch(name): the event, with the flag and progress it sees
Dispatch(s, name) ==
    [s EXCEPT !.events = Append(@, [name |-> name, immersed |-> s.immersed,
                                     progress |-> s._anim_progress])]

----------------------------------------------------------------------------
\* kivy.animation.Animation, as the class uses it

FreeId(used) == CHOOSE i \in 1..(Cardinality(used) + 1) :
                    /\ i \notin used
                    /\ \A j \in 1..(i - 1) : j \in used

\* variant: the animation keeps running
AnimationCancel_none(s, a) == s

\* self._anim.cancel(self): stops the animation, no on_complete
AnimationCancel(s, a) == [s EXCEPT !.anims = {x \in @ : x.id # a}]

\* self._anim = Animation(_anim_progress=target, ...); self._anim.start(self);
\* self._anim.bind(on_complete=...)
AnimationStart(s, target, cb) ==
    LET i == FreeId({x.id : x \in s.anims})
    IN  [s EXCEPT !._anim = i,
                  !.anims = @ \cup {[id |-> i, target |-> target,
                                     from |-> s._anim_progress, time |-> 0,
                                     on_complete |-> cb]}]

\* value of the animated property after k of AnimSteps frames
Calculate(a, b, k) == IF k >= AnimSteps THEN b ELSE a + ((b - a) * k) \div AnimSteps

\* one frame of a running animation x: set the property, and on the last
\* frame stop and dispatch on_complete
AnimationUpdate(s, x) ==
    LET k  == x.time + 1
        s1 == [s EXCEPT !._anim_progress = Calculate(x.from, x.target, k)]
    IN  IF k >= AnimSteps
        THEN Dispatch([s1 EXCEPT !.anims = @ \ {x}], x.on_complete)
        ELSE [s1 EXCEPT !.anims = (@ \ {x}) \cup {[x EXCEPT !.time = k]}]

----------------------------------------------------------------------------
\* kivy.clock.Clock, as the class uses it

ClockEventCancel(s, e) == [s EXCEPT !.clock = {x \in @ : x.id # e}]

ClockScheduleOnce(s, delay) ==
    LET i == FreeId({x.id : x \in s.clock})
    IN  [s EXCEPT !._scheduled_close = i,
                  !.clock = @ \cup {[id |-> i, remaining |-> delay]}]

----------------------------------------------------------------------------
\* Methods of ImmersiveLayout

\* variant: the scheduled event is left alone
cancel_scheduled_close_noop(s) == s

cancel_scheduled_close(s) ==
    IF s._scheduled_close # 0 THEN ClockEventCancel(s, s._scheduled_close) ELSE s

\* variant: the previous event is left pending
_schedule_close_nocancel(s) ==
    IF s.timeout > 0 THEN ClockScheduleOnce(s, s.timeout) ELSE s

_schedule_close(s) ==
    IF s.timeout > 0
    THEN ClockScheduleOnce(cancel_scheduled_close(s), s.timeout)
    ELSE s

\* variant: the running animation is not cancelled
enter_immersive_mode_nocancel(s) ==
    LET s2 == AnimationStart(s, 0, "on_finished_entering")
        s3 == [s2 EXCEPT !.immersed = "True"]
    IN  Dispatch(s3, "on_enter_immersive")

\* variant: self._anim.stop(self), which completes the running animation
enter_immersive_mode_stop(s) ==
    LET old == {x \in s.anims : x.id = s._anim}
        s0 == IF old = {} THEN s
              ELSE Dispatch(s, (CHOOSE x \in old : TRUE).on_complete)
        s1 == AnimationCancel(s0, s._anim)
        s2 == AnimationStart(s1, 0, "on_finished_entering")
        s3 == [s2 EXCEPT !.immersed = "True"]
    IN  Dispatch(s3, "on_enter_immersive")

enter_immersive_mode(s) ==
    LET s1 == AnimationCancel(s, s._anim)
        s2 == AnimationStart(s1, 0, "on_finished_entering")
        s3 == [s2 EXCEPT !.immersed = "True"]
    IN  Dispatch(s3, "on_enter_immersive")

\* variant: on_exit_immersive is dispatched before the flag is set
exit_immersive_mode_dispatch_first(s) ==
    LET s1 == AnimationCancel(s, s._anim)
        s2 == AnimationStart(s1, PScale, "on_finished_exiting")
        s3 == Dispatch(s2, "on_exit_immersive")
        s4 == [s3 EXCEPT !.immersed = "False"]
    IN  IF s4.auto_hide THEN _schedule_close(s4) ELSE s4

exit_immersive_mode(s) ==
    LET s1 == AnimationCancel(s, s._anim)
        s2 == AnimationStart(s1, PScale, "on_finished_exiting")
        s3 == [s2 EXCEPT !.immersed = "False"]
        s4 == Dispatch(s3, "on_exit_immersive")
    IN  IF s4.auto_hide THEN _schedule_close(s4) ELSE s4

\* variant: the branches are exchanged
toggle_state_inverted(s) ==
    IF Truthy(s.immersed) THEN enter_immersive_mode(s) ELSE exit_immersive_mode(s)

toggle_state(s) ==
    IF Truthy(s.immersed) THEN exit_immersive_mode(s) ELSE enter_immersive_mode(s)

\* the handler's effect on the controller
_keyboard_handler(s) ==
    IF s.auto_show THEN _schedule_close(exit_immersive_mode(s)) ELSE s

\* the handler's return value: the flag read before exit_immersive_mode,
\* or None when auto_show is off
\* variant: the flag is read after exit_immersive_mode
_keyboard_handler_return_late(s) ==
    IF s.auto_show THEN exit_immersive_mode(s).immersed ELSE "None"

_keyboard_handler_return(s) == IF s.auto_show THEN s.immersed ELSE "None"

on_touch_down(s) ==
    IF s.auto_show
    THEN exit_immersive_mode(IF ~Truthy(s.immersed)
                             THEN cancel_scheduled_close(s) ELSE s)
    ELSE s

\* whether super().on_touch_down(touch) is reached
\* variant: the flag is read after exit_immersive_mode
on_touch_down_forwards_late(s) ==
    IF s.auto_show THEN ~Truthy(exit_immersive_mode(s).immersed) ELSE TRUE

on_touch_down_forwards(s) == IF s.auto_show THEN ~Truthy(s.immersed) ELSE TRUE

\* variant: the timeout is stored also when it is 0
on_auto_hide_always_store(s) ==
    LET s1 == [s EXCEPT !._timeout = s.timeout]
        s2 == IF s1._scheduled_close # 0
              THEN ClockEventCancel(s1, s1._scheduled_close) ELSE s1
        s3 == [s2 EXCEPT !.timeout = s2._timeout * BoolInt(s2.auto_hide)]
    IN  IF s3.auto_hide THEN _schedule_close(s3) ELSE s3

\* runs after auto_hide has taken its new value
on_auto_hide(s) ==
    LET s1 == IF s.timeout > 0 THEN [s EXCEPT !._timeout = s.timeout] ELSE s
        s2 == IF s1._scheduled_close # 0
              THEN ClockEventCancel(s1, s1._scheduled_close) ELSE s1
    IN  IF s2._timeout = Unset
        THEN [s2 EXCEPT !.err = TRUE]
        ELSE LET s3 == [s2 EXCEPT !.timeout = s2._timeout * BoolInt(s2.auto_hide)]
             IN  IF s3.auto_hide THEN _schedule_close(s3) ELSE s3

----------------------------------------------------------------------------
\* The widget tree, as add_widget uses it

tree_self ==
    [children |-> children, kids |-> kids, _main_panel |-> _main_panel,
     _dock |-> _dock, main_panel |-> main_panel, dock |-> dock]

ApplyTree(t) ==
    /\ children' = t.children
    /\ kids' = t.kids
    /\ _main_panel' = t._main_panel
    /\ _dock' = t._dock
    /\ main_panel' = t.main_panel
    /\ dock' = t.dock

SeqRange(q) == {q[i] : i \in 1..Len(q)}

\* widget.parent is None
Parentless(w) ==
    /\ w \notin SeqRange(children)
    /\ \A v \in Widgets : w \notin SeqRange(kids[v])

\* Widget.add_widget(widget) of the widget p: insertion at index 0
SlotAddWidget(t, p, w) == [t EXCEPT !.kids[p] = <<w>> \o @]

\* variant: the dock is assigned without looking at self.dock
add_widget_no_dock_test(t, w) ==
    IF Len(t.children) = 0
    THEN [t EXCEPT !.children = <<w>> \o @, !._main_panel = w]
    ELSE IF Len(t.children) = 1
    THEN [t EXCEPT !.children = <<w>> \o @, !._dock = w]
    ELSE IF t.main_panel = 0
    THEN [SlotAddWidget(t, t._main_panel, w) EXCEPT !.main_panel = w]
    ELSE [SlotAddWidget(t, t._dock, w) EXCEPT !.dock = w]

add_widget(t, w) ==
    IF Len(t.children) = 0
    THEN [t EXCEPT !.children = <<w>> \o @, !._main_panel = w]
    ELSE IF Len(t.children) = 1
    THEN [t EXCEPT !.children = <<w>> \o @, !._dock = w]
    ELSE IF t.main_panel = 0
    THEN [SlotAddWidget(t, t._main_panel, w) EXCEPT !.main_panel = w]
    ELSE IF t.dock = 0
    THEN [SlotAddWidget(t, t._dock, w) EXCEPT !.dock = w]
    ELSE t

----------------------------------------------------------------------------
\* The kv rule <ImmersiveLayout>.  Lengths of the two boxes are in
\* 1/Unit pixel, _max_dock_size in 1/FScale pixel and opacity in 1/PScale,
\* so that every product of the rule is exact.

Unit == FScale * PScale

\* variant: the dock is placed with the progress instead of 1 - progress
KvRule_dock_y_progress(r, mds, f, p) ==
    LET d == mds * r.height
    IN  [_max_dock_size |-> d,
         _main_panel |-> [x |-> r.x * Unit,
                          y |-> r.y * Unit + d * p,
                          width |-> r.width * Unit,
                          height |-> r.height * Unit - d * p],
         _dock |-> [x |-> r.x * Unit,
                    y |-> r.y * Unit - d * p,
                    height |-> d * PScale,
                    width |-> r.width * Unit,
                    opacity |-> IF f THEN p ELSE PScale]]

\* r: root, mds: root.max_dock_size, f: root.fade, p: root._anim_progress
KvRule(r, mds, f, p) ==
    LET d == mds * r.height
    IN  [_max_dock_size |-> d,
         _main_panel |-> [x |-> r.x * Unit,
                          y |-> r.y * Unit + d * p,
                          width |-> r.width * Unit,
                          height |-> r.height * Unit - d * p],
         _dock |-> [x |-> r.x * Unit,
                    y |-> r.y * Unit - d * (PScale - p),
                    height |-> d * PScale,
                    width |-> r.width * Unit,
                    opacity |-> IF f THEN p ELSE PScale]]

----------------------------------------------------------------------------
\* History variables

MaxT == IF MaxTimeout > DefaultTimeout THEN MaxTimeout ELSE DefaultTimeout

\* EnterRun.  run: the number (at most 2) of enter_immersive_mode calls in
\* the current succession; a call continues the succession when the
\* animation of the previous call is still running, and begins one
\* otherwise; exit_immersive_mode ends it.  fins: the number (at most 2) of
\* on_finished_entering events dispatched since the succession began.
EnteringRuns == \E x \in anims : x.id = _anim /\ x.on_complete = "on_finished_entering"

GhostEnter ==
    /\ run' = IF run >= 1 /\ EnteringRuns THEN Min(run + 1, 2) ELSE 1
    /\ fins' = IF run >= 1 /\ EnteringRuns THEN fins ELSE 0

GhostExit == run' = 0 /\ fins' = 0

CountOf(q, name) == Cardinality({i \in 1..Len(q) : q[i].name = name})

\* Reveal.  revealT: the timeout in force when the dock was last revealed
\* (exit_immersive_mode, or an input event that calls it) with auto_hide on
\* and timeout > 0, as long as nothing but the passing of time, animation
\* frames and timer firings has happened since; Unset otherwise.
\* elapsed: the time passed since then.  autoEnters: the values of elapsed
\* at which the timer has fired since then.
NoReveal == revealT' = Unset /\ elapsed' = 0 /\ autoEnters' = <<>>

RevealBy(s) ==
    IF s.auto_hide /\ s.timeout > 0
    THEN revealT' = s.timeout /\ elapsed' = 0 /\ autoEnters' = <<>>
    ELSE NoReveal

KeepReveal == UNCHANGED <<revealT, elapsed, autoEnters>>

NoOff == <<Unset, "none">>

----------------------------------------------------------------------------
\* Construction

InitCtl ==
    /\ immersed \in PyBool
    /\ auto_show = TRUE
    /\ auto_hide = TRUE
    /\ timeout = DefaultTimeout
    /\ _timeout = Unset
    /\ _anim_progress = 0
    /\ _anim = 0
    /\ anims = {}
    /\ _scheduled_close = 0
    /\ clock = {}
    /\ events = <<>>
    /\ err = FALSE
    /\ lastOp = "init"
    /\ ret = "none"
    /\ run = 0
    /\ fins = 0
    /\ revealT = Unset
    /\ elapsed = 0
    /\ autoEnters = <<>>
    /\ offFrom = NoOff
    /\ toggled = "none"
    /\ root = [x |-> 0, y |-> 0, width |-> MaxSize, height |-> MaxSize]
    /\ max_dock_size = DefaultMaxDockSize
    /\ fade = TRUE
    /\ kv = KvRule(root, max_dock_size, fade, _anim_progress)

\* the kv rule has added the two structural BoxLayouts
Init ==
    /\ InitCtl
    /\ children = <<2, 1>>
    /\ kids = [v \in Widgets |-> <<>>]
    /\ _main_panel = 1
    /\ _dock = 2
    /\ main_panel = 0
    /\ dock = 0
    /\ added = <<1, 2>>

\* before the kv rule is applied
InitWidgets ==
    /\ InitCtl
    /\ children = <<>>
    /\ kids = [v \in Widgets |-> <<>>]
    /\ _main_panel = 0
    /\ _dock = 0
    /\ main_panel = 0
    /\ dock = 0
    /\ added = <<>>

----------------------------------------------------------------------------
\* Steps

EnterImmersiveMode ==
    /\ ~err
    /\ Apply(enter_immersive_mode(self))
    /\ GhostEnter /\ NoReveal
    /\ lastOp' = "enter_immersive_mode" /\ ret' = "none"
    /\ UNCHANGED <<tree, offFrom>>
    /\ toggled' = "none"
    /\ UNCHANGED <<box, kv>>

ExitImmersiveMode ==
    /\ ~err
    /\ LET s == exit_immersive_mode(self) IN Apply(s) /\ RevealBy(s)
    /\ GhostExit
    /\ lastOp' = "exit_immersive_mode" /\ ret' = "none"
    /\ UNCHANGED <<tree, offFrom>>
    /\ toggled' = "none"
    /\ UNCHANGED <<box, kv>>

\* toggled: "to_hidden" / "to_shown" after toggle_state called
\* enter_immersive_mode / exit_immersive_mode, until the next call, input
\* event or property assignment ("none"); "interrupted" once the timer
\* has fired after a toggle_state that called exit_immersive_mode.
ToggleState ==
    /\ ~err
    /\ LET s == toggle_state(self)
       IN  /\ Apply(s)
           /\ IF Truthy(immersed)
              THEN GhostExit /\ RevealBy(s)
              ELSE GhostEnter /\ NoReveal
    /\ lastOp' = "toggle_state" /\ ret' = "none"
    /\ UNCHANGED <<tree, offFrom>>
    /\ toggled' = IF Truthy(immersed) THEN "to_shown" ELSE "to_hidden"
    /\ UNCHANGED <<box, kv>>

\* Window on_keyboard: a truthy return value blocks the event
KeyDown ==
    /\ ~err
    /\ LET s == _keyboard_handler(self)
       IN  /\ Apply(s)
           /\ IF auto_show
              THEN GhostExit /\ RevealBy(s)
              ELSE KeepReveal /\ UNCHANGED <<run, fins>>
    /\ ret' = IF Truthy(_keyboard_handler_return(self)) THEN "block" ELSE "pass"
    /\ lastOp' = "on_keyboard"
    /\ UNCHANGED <<tree, offFrom>>
    /\ toggled' = IF auto_show THEN "none" ELSE toggled
    /\ UNCHANGED <<box, kv>>

TouchDown ==
    /\ ~err
    /\ LET s == on_touch_down(self)
       IN  /\ Apply(s)
           /\ IF auto_show
              THEN GhostExit /\ RevealBy(s)
              ELSE KeepReveal /\ UNCHANGED <<run, fins>>
    /\ ret' = IF on_touch_down_forwards(self) THEN "forwarded" ELSE "swallowed"
    /\ lastOp' = "on_touch_down"
    /\ UNCHANGED <<tree, offFrom>>
    /\ toggled' = IF auto_show THEN "none" ELSE toggled
    /\ UNCHANGED <<box, kv>>

\* self.auto_hide = b; the observer runs only when the value changes.
\* offFrom: <<T, "off">> after auto_hide was turned off with timeout T > 0,
\* <<T, "on">> after it was then turned on again, until timeout or auto_hide
\* is set again; NoOff otherwise.
SetAutoHide(b) ==
    /\ ~err
    /\ b # auto_hide
    /\ LET s == on_auto_hide([self EXCEPT !.auto_hide = b])
       IN  /\ Apply(s)
           /\ offFrom' = IF s.err THEN NoOff
                         ELSE IF ~b /\ timeout > 0 THEN <<timeout, "off">>
                         ELSE IF b /\ offFrom[2] = "off" THEN <<offFrom[1], "on">>
                         ELSE NoOff
    /\ NoReveal
    /\ lastOp' = "auto_hide" /\ ret' = "none"
    /\ UNCHANGED <<tree, run, fins>>
    /\ toggled' = "none"
    /\ UNCHANGED <<box, kv>>

\* self.timeout = t; the class has no observer of timeout
SetTimeout(t) ==
    /\ ~err
    /\ t # timeout
    /\ Apply([self EXCEPT !.timeout = t])
    /\ NoReveal
    /\ offFrom' = NoOff
    /\ lastOp' = "timeout" /\ ret' = "none"
    /\ UNCHANGED <<tree, run, fins>>
    /\ toggled' = "none"
    /\ UNCHANGED <<box, kv>>

SetAutoShow(b) ==
    /\ ~err
    /\ b # auto_show
    /\ Apply([self EXCEPT !.auto_show = b])
    /\ KeepReveal
    /\ lastOp' = "auto_show" /\ ret' = "none"
    /\ UNCHANGED <<tree, run, fins, offFrom>>
    /\ toggled' = "none"
    /\ UNCHANGED <<box, kv>>

\* one unit of time passes; a due event fires first
Tick ==
    /\ ~err
    /\ \A e \in clock : e.remaining > 0
    /\ Apply([self EXCEPT !.clock = {[e EXCEPT !.remaining = @ - 1] : e \in @}])
    /\ elapsed' = IF revealT = Unset THEN 0 ELSE Min(elapsed + 1, MaxT + 1)
    /\ lastOp' = "tick" /\ ret' = "none"
    /\ UNCHANGED <<tree, run, fins, revealT, autoEnters, offFrom>>
    /\ UNCHANGED toggled
    /\ UNCHANGED <<box, kv>>

\* a due ClockEvent calls its callback, self.enter_immersive_mode
ClockFire ==
    /\ ~err
    /\ \E e \in clock :
         /\ e.remaining = 0
         /\ Apply(enter_immersive_mode([self EXCEPT !.clock = @ \ {e}]))
    /\ GhostEnter
    /\ autoEnters' = IF revealT = Unset \/ Len(autoEnters) >= 2
                     THEN autoEnters ELSE Append(autoEnters, elapsed)
    /\ lastOp' = "clock" /\ ret' = "none"
    /\ UNCHANGED <<tree, revealT, elapsed, offFrom>>
    /\ toggled' = IF toggled = "to_shown" THEN "interrupted" ELSE toggled
    /\ UNCHANGED <<box, kv>>

\* one frame of a running animation
AnimationFrame ==
    /\ ~err
    /\ \E x \in anims :
         LET s == AnimationUpdate(self, x)
         IN  /\ Apply(s)
             /\ fins' = Min(fins + CountOf(s.events, "on_finished_entering"), 2)
    /\ KeepReveal
    /\ lastOp' = "animation" /\ ret' = "none"
    /\ UNCHANGED <<tree, run, offFrom>>
    /\ UNCHANGED toggled
    /\ UNCHANGED box /\ kv' = KvRule(root, max_dock_size, fade, _anim_progress')

AddWidget(w) ==
    /\ Len(added) < MaxAdds
    /\ Parentless(w)
    /\ ApplyTree(add_widget(tree_self, w))
    /\ added' = Append(added, w)
    /\ lastOp' = "add_widget" /\ ret' = "none"
    /\ UNCHANGED <<ctl, hist>>
    /\ UNCHANGED <<box, kv>>

\* self.immersed = v; the class has no observer of immersed
SetImmersed(v) ==
    /\ ~err
    /\ v # immersed
    /\ Apply([self EXCEPT !.immersed = v])
    /\ NoReveal
    /\ lastOp' = "immersed" /\ ret' = "none"
    /\ toggled' = "none"
    /\ UNCHANGED <<tree, run, fins, offFrom, box, kv>>

\* the host moves or resizes the container; the rule is evaluated again
SetBounds(r) ==
    /\ ~err
    /\ r # root
    /\ root' = r
    /\ kv' = KvRule(r, max_dock_size, fade, _anim_progress)
    /\ lastOp' = "bounds" /\ ret' = "none"
    /\ UNCHANGED <<ctl, tree, hist, max_dock_size, fade>>

SetMaxDockSize(m) ==
    /\ ~err
    /\ m # max_dock_size
    /\ max_dock_size' = m
    /\ kv' = KvRule(root, m, fade, _anim_progress)
    /\ lastOp' = "max_dock_size" /\ ret' = "none"
    /\ UNCHANGED <<ctl, tree, hist, root, fade>>

SetFade(b) ==
    /\ ~err
    /\ b # fade
    /\ fade' = b
    /\ kv' = KvRule(root, max_dock_size, b, _anim_progress)
    /\ lastOp' = "fade" /\ ret' = "none"
    /\ UNCHANGED <<ctl, tree, hist, root, max_dock_size>>

Next ==
    \/ EnterImmersiveMode
    \/ ExitImmersiveMode
    \/ ToggleState
    \/ KeyDown
    \/ TouchDown
    \/ \E b \in BOOLEAN : SetAutoHide(b)
    \/ \E t \in TimeoutValues : SetTimeout(t)
    \/ \E b \in BOOLEAN : SetAutoShow(b)
    \/ Tick
    \/ ClockFire
    \/ AnimationFrame

Spec == Init /\ [][Next]_vars

NextWidgets == \E w \in Widgets : AddWidget(w)

SpecWidgets == InitWidgets /\ [][NextWidgets]_vars

\* the geometry under every container, dock fraction and progress an
\* animation produces
NextGeometry ==
    \/ \E r \in [x : Coords, y : Coords, width : Sizes, height : Sizes] : SetBounds(r)
    \/ \E m \in DockFractions : SetMaxDockSize(m)
    \/ \E b \in BOOLEAN : SetFade(b)
    \/ EnterImmersiveMode
    \/ ExitImmersiveMode
    \/ AnimationFrame

SpecGeometry == Init /\ [][NextGeometry]_vars

\* the state forced by assignment of immersed, next to the two methods
NextForce ==
    \/ \E v \in {"True", "False"} : SetImmersed(v)
    \/ EnterImmersiveMode
    \/ ExitImmersiveMode
    \/ \E t \in TimeoutValues : SetTimeout(t)
    \/ Tick
    \/ ClockFire
    \/ AnimationFrame

SpecForce == Init /\ [][NextForce]_vars

\* toggle_state and the property assignments that bear on the timer
NextLive ==
    \/ ToggleState
    \/ \E b \in BOOLEAN : SetAutoHide(b)
    \/ \E t \in TimeoutValues : SetTimeout(t)
    \/ Tick
    \/ ClockFire
    \/ AnimationFrame

\* the Clock keeps delivering frames, time and due events
SpecLive ==
    /\ Init /\ [][NextLive]_vars
    /\ WF_vars(AnimationFrame)
    /\ WF_vars(Tick)
    /\ WF_vars(ClockFire)

----------------------------------------------------------------------------
\* Properties

Shown == _anim_progress = PScale /\ immersed = "False"
Hidden == _anim_progress = 0 /\ immersed = "True"

\* C1: a freshly constructed controller that was not constructed with
\* immersed=True is in the Shown state: the flag is not set and the
\* progress is 1.
C1_FreshIsShown ==
    (lastOp = "init" /\ immersed # "True")
        => (~Truthy(immersed) /\ _anim_progress = PScale)

\* C2: after the dock is revealed with auto_hide on and timeout T > 0, and
\* while nothing but time, animation frames and the timer act, exactly one
\* close is pending, due T after the reveal, until it fires; it fires when
\* exactly T has elapsed and nothing is pending afterwards.  A later
\* revealing input starts the count again.
C2_AutoEnterExactlyAtDeadline ==
    revealT > 0 =>
        \/ /\ autoEnters = <<>>
           /\ elapsed <= revealT
           /\ \E e \in clock : /\ clock = {e}
                               /\ e.id = _scheduled_close
                               /\ e.remaining = revealT - elapsed
        \/ /\ autoEnters = <<revealT>>
           /\ clock = {}
           /\ immersed = "True"

C2_Witness ==
    /\ revealT > 0
    /\ revealT # DefaultTimeout
    /\ autoEnters = <<revealT>>
    /\ elapsed > revealT
    /\ lastOp = "tick"

\* C3: while timeout is 0 the timer never puts the panel into immersive
\* mode.
C3_NoAutoEnterAtZero == lastOp = "clock" => timeout > 0

\* C4: in a succession of enter_immersive_mode calls, each made before the
\* animation of the previous one completed, exactly one animation is
\* active, it is the one held in _anim and it targets progress 0, and
\* on_finished_entering is dispatched exactly once: it is either still to
\* come from that animation or has been dispatched once.
C4_OneAnimationOneFinish ==
    run >= 2 =>
        /\ Cardinality(anims) + fins = 1
        /\ \A x \in anims : /\ x.id = _anim
                            /\ x.target = 0
                            /\ x.on_complete = "on_finished_entering"

C4_Witness == run = 2 /\ fins = 1 /\ anims = {} /\ Hidden

\* C5: once enter_immersive_mode has been called after exit_immersive_mode,
\* the exit animation is no longer running and on_finished_exiting is not
\* dispatched, also when the exit animation was cancelled in flight.
C5_CancelledExitNeverFinishes ==
    run >= 1 =>
        /\ \A x \in anims : x.on_complete # "on_finished_exiting"
        /\ CountOf(events, "on_finished_exiting") = 0

\* an enter call that found the exit animation half way
C5_Witness ==
    /\ run = 1
    /\ lastOp = "enter_immersive_mode"
    /\ \E x \in anims : x.from \notin {0, PScale} /\ x.time = 0

\* C6: with auto_show a pointer-down on an immersed panel calls
\* exit_immersive_mode (flag False, animation toward 1 started) and is not
\* forwarded; on a panel that is not immersed it is forwarded; without
\* auto_show it is always forwarded.
C6_TouchDown ==
    [][lastOp' = "on_touch_down" =>
         IF auto_show /\ Truthy(immersed)
         THEN /\ ret' = "swallowed"
              /\ immersed' = "False"
              /\ CountOf(events', "on_exit_immersive") = 1
              /\ \E x \in anims' : x.id = _anim' /\ x.target = PScale
         ELSE ret' = "forwarded"]_vars

C6_Witness == lastOp = "on_touch_down" /\ ret = "swallowed" /\ immersed = "False"

\* C7: with auto_show a key-down calls exit_immersive_mode and blocks the
\* event exactly when the panel was immersed before the event.
C7_KeyDown ==
    [][(lastOp' = "on_keyboard" /\ auto_show) =>
         /\ ret' = (IF Truthy(immersed) THEN "block" ELSE "pass")
         /\ immersed' = "False"
         /\ CountOf(events', "on_exit_immersive") = 1]_vars

C7_Witness == lastOp = "on_keyboard" /\ ret = "block" /\ immersed = "False"

\* C8: turning auto_hide off with timeout T > 0 makes timeout 0, and turning
\* it on again makes timeout T.
C8_TimeoutRestored ==
    /\ offFrom[2] = "off" => (timeout = 0 /\ ~auto_hide)
    /\ offFrom[2] = "on" => (timeout = offFrom[1] /\ auto_hide)

C8_Witness == offFrom[2] = "on" /\ offFrom[1] = MaxTimeout /\ timeout = MaxTimeout

ToggleCalls ==
    [][lastOp' = "toggle_state" =>
         IF Truthy(immersed)
         THEN /\ immersed' = "False"
              /\ CountOf(events', "on_exit_immersive") = 1
              /\ \E x \in anims' : x.id = _anim' /\ x.target = PScale
         ELSE /\ immersed' = "True"
              /\ CountOf(events', "on_enter_immersive") = 1
              /\ \E x \in anims' : x.id = _anim' /\ x.target = 0]_vars

C10_AddWidget ==
    LET n == Len(added)
    IN  /\ children = IF n = 0 THEN <<>>
                      ELSE IF n = 1 THEN <<added[1]>>
                      ELSE <<added[2], added[1]>>
        /\ _main_panel = IF n >= 1 THEN added[1] ELSE 0
        /\ _dock = IF n >= 2 THEN added[2] ELSE 0
        /\ main_panel = IF n >= 3 THEN added[3] ELSE 0
        /\ dock = IF n >= 4 THEN added[4] ELSE 0
        /\ \A v \in Widgets :
             kids[v] = IF n >= 3 /\ v = added[1] THEN <<added[3]>>
                       ELSE IF n >= 4 /\ v = added[2] THEN <<added[4]>>
                       ELSE <<>>

C10_Witness == Len(added) = MaxAdds /\ dock = added[4] /\ main_panel = added[3]

\* C11: with D = max_dock_size x container height, the main panel's height
\* plus D x progress is the container's height, its y is the container's y
\* plus D x progress, the dock's y is the container's y minus
\* D x (1 - progress), its height is D, and its opacity is the progress
\* when fade is on and 1 otherwise.
C11_Geometry ==
    LET D == max_dock_size * root.height
        p == _anim_progress
    IN  /\ kv._main_panel.height + D * p = root.height * Unit
        /\ kv._main_panel.y = root.y * Unit + D * p
        /\ kv._dock.y + D * (PScale - p) = root.y * Unit
        /\ kv._dock.height = D * PScale
        /\ kv._dock.opacity = IF fade THEN p ELSE PScale
        /\ p \in 0..PScale

C11_Witness ==
    /\ _anim_progress \notin {0, PScale}
    /\ root.height = MaxSize /\ root.y # 0
    /\ max_dock_size \notin {DefaultMaxDockSize, FScale}
    /\ root.x # 0 /\ root.width # MaxSize
    /\ ~fade
    /\ lastOp = "animation"

\* C12: once immersed has been set to True by assignment the dock is out
\* of view or an animation toward progress 0 is running.
C12_SetImmersedAnimatesOut ==
    (lastOp = "immersed" /\ immersed = "True")
        => \/ _anim_progress = 0
           \/ \E x \in anims : x.id = _anim /\ x.target = 0

\* C13: right after enter_immersive_mode returns no scheduled close is
\* pending: a close scheduled earlier has been cancelled by the call.
C13_EnterCancelsClose == lastOp = "enter_immersive_mode" => clock = {}

\* C14: while auto_hide is off no scheduled close is pending and the timer
\* never calls enter_immersive_mode.
C14_NoCloseWhileAutoHideOff ==
    ~auto_hide => (clock = {} /\ lastOp # "clock")

\* C15: turning auto_hide off cancels a pending close; turning it on
\* schedules a close on a shown panel and none on an immersed one.
C15_AutoHidePolicy ==
    (lastOp = "auto_hide" /\ ~err) =>
        /\ ~auto_hide => clock = {}
        /\ (auto_hide /\ timeout > 0 /\ ~Truthy(immersed)) => clock # {}
        /\ (auto_hide /\ Truthy(immersed)) => clock = {}

\* C16: at most one scheduled close is pending, and it is the one
\* self._scheduled_close refers to.
C16_OneScheduledClose ==
    /\ Cardinality(clock) <= 1
    /\ \A e \in clock : e.id = _scheduled_close

\* a key-down on a shown panel: exit_immersive_mode schedules a close and
\* _schedule_close replaces it
C16_Witness ==
    /\ lastOp = "on_keyboard" /\ ret = "pass"
    /\ auto_show /\ auto_hide /\ timeout > 0
    /\ Cardinality(clock) = 1

\* C17: a begin event sees the flag at its new value (True for
\* on_enter_immersive, False for on_exit_immersive); the step that
\* dispatches it has started the animation bound to the matching completion
\* event and dispatches no completion event, which comes with a later frame.
BeginEvents == {"on_enter_immersive", "on_exit_immersive"}

CompletionOf(name) ==
    IF name = "on_enter_immersive" THEN "on_finished_entering"
    ELSE "on_finished_exiting"

C17_FlagThenBeginThenCompletion ==
    \A i \in 1..Len(events) :
        IF events[i].name \in BeginEvents
        THEN /\ events[i].immersed =
                    (IF events[i].name = "on_enter_immersive" THEN "True" ELSE "False")
             /\ lastOp # "animation"
             /\ \A j \in 1..Len(events) : events[j].name \in BeginEvents
             /\ i = Len(events) =>
                    \E x \in anims : /\ x.id = _anim /\ x.time = 0
                                     /\ x.on_complete = CompletionOf(events[i].name)
        ELSE lastOp = "animation"

\* a touch on an immersed panel: on_exit_immersive dispatched by the call
C17_Witness ==
    /\ lastOp = "on_touch_down" /\ ret = "swallowed"
    /\ Len(events) = 1 /\ events[1].name = "on_exit_immersive"

\* C18: on_finished_entering is dispatched with progress 0 and immersed
\* True, on_finished_exiting with progress 1 and immersed False.
C18_FinishedWhereItSays ==
    \A i \in 1..Len(events) :
        /\ events[i].name = "on_finished_entering" =>
               /\ events[i].progress = 0 /\ events[i].immersed = "True"
               /\ Hidden
        /\ events[i].name = "on_finished_exiting" =>
               /\ events[i].progress = PScale /\ events[i].immersed = "False"
               /\ Shown

\* the enter animation, started by the timer after a key event, completes
C18_Witness ==
    /\ lastOp = "animation"
    /\ CountOf(events, "on_finished_entering") = 1
    /\ Len(autoEnters) = 1

\* C19: an assignment of auto_hide completes without an error for every
\* timeout, and with timeout 0 at the first one timeout stays 0.
C19_AutoHideNeverRaises ==
    /\ ~err
    /\ (lastOp = "auto_hide" /\ _timeout = Unset) => timeout = 0

\* C20: with auto_hide on and timeout > 0 a panel that is not immersed
\* becomes Hidden as time, frames and timer firings go on, unless a call or
\* an assignment happens first.
CallOps == {"toggle_state", "auto_hide", "timeout"}

C20_AutoHideEventually ==
    (auto_hide /\ timeout > 0 /\ ~Truthy(immersed) /\ ~err /\ lastOp \notin CallOps)
        ~> (Hidden \/ lastOp \in CallOps)

====
